---- MODULE Spec2Model ----
(***************************************************************************)
(* A model of the HTTP resilience layer of mihajm/http: the in-memory      *)
(* Cache (cache.ts), the circuit breaker, the request deduplication        *)
(* interceptor, the retry policy and the resource controllers built on     *)
(* them.  Every component is modelled by pure operators translated from    *)
(* its handlers; the actions of a specification apply them.                *)
(***************************************************************************)
EXTENDS Integers, Sequences, FiniteSets, TLC

(***************************************************************************)
(* Bounds of the model.                                                    *)
(***************************************************************************)
NumKeys == 3
NumFreshKeys == 1
NumValues == 2
MaxTime == 3
MaxTtl == 2
MaxMaxSize == 2
MaxUseCount == 3
MaxTreshold == 3
MaxFailureCount == 4
MaxRecoveryFails == 10
NumUrls == 2
MaxRequests == 2
NumDescriptors == 2
MaxRetries == 2
MaxBackoff == 2
MaxRunFails == 3
MaxPendingRetries == 2
MaxMutations == 3
MaxSeconds == 2
MaxParts == 2
MaxFetches == 1
MaxViewTime == 1
MaxProps == 2
MaxChainRequests == 3

Keys == 1..NumKeys
FreshKeys == 1..NumFreshKeys
Values == 1..NumValues

VARIABLES
  now,        \* Date.now()
  internal,   \* Cache.internal$.value: the Map, as a sequence in insertion order
  ttl,        \* Cache.ttl (constructor default)
  staleTime,  \* Cache.staleTime (constructor default)
  cleanupOpt, \* Cache.cleanupOpt: [type, maxSize]
  lastOp,     \* history: the last cache operation and what it returned
  stored,     \* history: per key, the arguments of the last store still in force
  cb,         \* circuit breaker: failureCount, halfOpen, and its reset effect
  treshold,   \* createCircuitBreaker(treshold)
  cbHist,     \* history: the outcome signals the breaker has received
  inFlight,   \* dedupe interceptor: Map urlWithParams -> shared observable (its call)
  calls,      \* the transport calls next(req) has been subscribed for
  reqs,       \* the requests that went through the interceptor, and what each observed
  res,        \* resource controller: httpResource state, its breaker, retry policy
  options,    \* the controller's options: retry max and backoff, refresh
  mut,        \* mutation resource: nextRequest, ctx, and the callbacks it has run
  timings,    \* a cache-control resolution: its inputs and its result
  fetches,    \* cache interceptor: the transport calls it has under way
  view,       \* a resource's value pipeline: httpResource value, cachedEvent, published value
  hashed      \* hash(a) and hash(b) of two values

cacheVars == <<now, internal, ttl, staleTime, cleanupOpt, lastOp, stored>>
cbVars == <<cb, treshold, cbHist>>
ddVars == <<inFlight, calls, reqs>>
resVars == <<res, options, mut>>
vars == <<cacheVars, cbVars, ddVars, resVars, timings, fetches, view, hashed>>
notCache == <<cbVars, ddVars, resVars, timings, fetches, view, hashed>>
notBreaker == <<cacheVars, ddVars, resVars, timings, fetches, view, hashed>>
notDedupe == <<cacheVars, cbVars, resVars, timings, fetches, view, hashed>>
notResource == <<cacheVars, cbVars, ddVars, timings, fetches, view, hashed>>
notIntercept == <<cbVars, ddVars, resVars, timings, view, hashed>>
notTimings == <<cacheVars, cbVars, ddVars, resVars, fetches, view, hashed>>
notHash == <<cacheVars, cbVars, ddVars, resVars, timings, fetches, view>>
notChain == <<cbVars, resVars, timings, fetches, view, hashed>>
notView == <<cbVars, ddVars, resVars, timings, fetches, hashed>>

(***************************************************************************)
(* Cache (src/src/app/util/cache/cache.ts)                                 *)
(***************************************************************************)
\* undefined and null are the value Undefined; Infinity is a number above
\* every time of the model, and plus (IEEE addition) keeps it fixed
Undefined == -1
Infinity == 1000000000

plus(a, b) == IF a >= Infinity \/ b >= Infinity THEN Infinity ELSE a + b

NoEntry == [key |-> 0, value |-> 0, created |-> 0, stale |-> 0, useCount |-> 0,
            expiresAt |-> 0, timeout |-> 0]

\* Map.get / Map.has / Map.delete / Map.set on the insertion-ordered sequence
MapHas(m, key) == \E i \in 1..Len(m) : m[i].key = key
MapGet(m, key) == IF MapHas(m, key)
                  THEN m[CHOOSE i \in 1..Len(m) : m[i].key = key]
                  ELSE NoEntry
MapDelete(m, key) == SelectSeq(m, LAMBDA e : e.key # key)
MapSet(m, key, e) == IF MapHas(m, key)
                     THEN [i \in 1..Len(m) |-> IF m[i].key = key THEN e ELSE m[i]]
                     ELSE Append(m, e)

\* getEntry(key): the entry, or null; an expired entry is deleted on lookup
getEntry(m, key, t) ==
  LET found == MapGet(m, key) IN
  IF ~MapHas(m, key) THEN [map |-> m, found |-> FALSE, entry |-> NoEntry]
  ELSE IF found.expiresAt <= t
       THEN [map |-> MapDelete(m, key), found |-> FALSE, entry |-> NoEntry]
       ELSE [map |-> m, found |-> TRUE, entry |-> found]

\* getEntryAndStale(key): isStale is found.stale < Date.now()
isStale(e, t) == e.stale < t

\* get(key): counts the use and returns {value, isStale}, or null
Absent == [present |-> FALSE, value |-> 0, isStale |-> FALSE]
get(m, key, t) ==
  LET g == getEntry(m, key, t) IN
  IF ~g.found THEN [map |-> g.map, result |-> Absent]
  ELSE [map    |-> MapSet(g.map, key, [g.entry EXCEPT !.useCount = @ + 1]),
        result |-> [present |-> TRUE, value |-> g.entry.value,
                    isStale |-> isStale(g.entry, t)]]

\* Array.prototype.toSorted: a stable sort; Before(a, b) is comparator(a, b) > 0
RECURSIVE InsertSorted(_, _, _)
InsertSorted(s, e, type) ==
  IF s = <<>> THEN <<e>>
  ELSE LET last == s[Len(s)]
           greater == IF type = "lru" THEN last.useCount - e.useCount > 0
                                     ELSE last.created - e.created > 0
       IN IF greater
          THEN Append(InsertSorted(SubSeq(s, 1, Len(s) - 1), e, type), last)
          ELSE Append(s, e)

RECURSIVE toSorted(_, _)
toSorted(m, type) ==
  IF m = <<>> THEN <<>>
  ELSE InsertSorted(toSorted(SubSeq(m, 1, Len(m) - 1), type), m[Len(m)], type)

\* cleanup(): above maxSize, keep the floor(maxSize / 2) last entries of the sort
CleanupKeepAllMutant(m, opt) ==
  IF Len(m) <= opt.maxSize THEN m
  ELSE LET sorted == toSorted(m, opt.type)
           keepCount == opt.maxSize
       IN SubSeq(sorted, Len(sorted) - keepCount + 1, Len(sorted))

CleanupKeepFirstMutant(m, opt) ==
  IF Len(m) <= opt.maxSize THEN m
  ELSE LET sorted == toSorted(m, opt.type)
           keepCount == opt.maxSize \div 2
       IN SubSeq(sorted, 1, keepCount)

cleanup(m, opt) ==
  IF Len(m) <= opt.maxSize THEN m
  ELSE LET sorted == toSorted(m, opt.type)
           keepCount == opt.maxSize \div 2
           removed == SubSeq(sorted, 1, Len(sorted) - keepCount)
           keep == SubSeq(sorted, Len(removed) + 1, Len(sorted))
       IN keep

\* setTimeout(f, delay): the delay is converted to a 32-bit integer, and
\* Infinity converts to 0
timerDelay(delay) == IF delay >= Infinity THEN 0 ELSE delay

\* storeWithInvalidation(key, value, staleTime, ttl) up to the call of cleanup():
\* expiresAt is computed from this.ttl, the removal timer from the ttl argument
storeSet(m, key, value, staleArg, ttlArg, t, thisTtl) ==
  LET g == getEntry(m, key, t)
      prevCount == IF g.found THEN g.entry.useCount ELSE 0
  IN MapSet(g.map, key,
            [key       |-> key,
             value     |-> value,
             created   |-> IF g.found THEN g.entry.created ELSE t,
             useCount  |-> prevCount + 1,
             stale     |-> plus(t, staleArg),
             expiresAt |-> plus(t, thisTtl),
             timeout   |-> t + timerDelay(ttlArg)])

storeWithInvalidation(m, key, value, staleArg, ttlArg, t, thisTtl, opt) ==
  cleanup(storeSet(m, key, value, staleArg, ttlArg, t, thisTtl), opt)

\* invalidate(key)
invalidate(m, key, t) ==
  LET g == getEntry(m, key, t) IN
  IF g.found THEN MapDelete(g.map, key) ELSE g.map

KeysOf(m) == {m[i].key : i \in 1..Len(m)}

\* a removal timer whose delay has elapsed runs before anything else does
TimeoutDue == \E i \in 1..Len(internal) : internal[i].timeout <= now

NoStore == [at |-> 0, staleTime |-> 0, ttl |-> 0, value |-> 0, set |-> FALSE]

\* the keys a store leaves in force: those the eviction pass did not discard
Surviving(old, m) == [k \in Keys |-> IF k \in KeysOf(m) THEN old[k] ELSE NoStore]

InitCache ==
  /\ now = 0
  /\ internal = <<>>
  /\ ttl \in 1..MaxTtl
  /\ staleTime \in 0..ttl
  /\ cleanupOpt \in [type : {"lru", "oldest"}, maxSize : 1..MaxMaxSize]
  /\ lastOp = [op |-> "init"]
  /\ stored = [k \in Keys |-> NoStore]

Get(key) ==
  /\ ~TimeoutDue
  /\ MapGet(internal, key).useCount < MaxUseCount
  /\ LET r == get(internal, key, now) IN
       /\ internal' = r.map
       /\ lastOp' = [op |-> "get", key |-> key, result |-> r.result]
  /\ UNCHANGED <<now, ttl, staleTime, cleanupOpt, stored>>
  /\ UNCHANGED notCache

StoreWithInvalidation(key, value, staleArg, ttlArg) ==
  /\ ~TimeoutDue
  /\ MapGet(internal, key).useCount < MaxUseCount
  /\ LET before == storeSet(internal, key, value, staleArg, ttlArg, now, ttl)
         after == storeWithInvalidation(internal, key, value, staleArg, ttlArg,
                                        now, ttl, cleanupOpt)
     IN /\ internal' = after
        /\ lastOp' = [op |-> "store", key |-> key, sizeBefore |-> Len(before),
                      before |-> IF Len(before) > cleanupOpt.maxSize THEN before ELSE <<>>]
        /\ stored' = Surviving([stored EXCEPT ![key] =
                                  [at |-> now, staleTime |-> staleArg, ttl |-> ttlArg,
                                   value |-> value, set |-> TRUE]], after)
  /\ UNCHANGED <<now, ttl, staleTime, cleanupOpt>>
  /\ UNCHANGED notCache

\* store(key, value): storeWithInvalidation with the cache's own defaults
Store(key, value) == StoreWithInvalidation(key, value, staleTime, ttl)

Invalidate(key) ==
  /\ ~TimeoutDue
  /\ internal' = invalidate(internal, key, now)
  /\ lastOp' = [op |-> "invalidate", key |-> key]
  /\ stored' = [stored EXCEPT ![key] = NoStore]
  /\ UNCHANGED <<now, ttl, staleTime, cleanupOpt>>
  /\ UNCHANGED notCache

\* the entry's setTimeout(() => this.invalidate(key), ttl) fires
TimeoutFire(key) ==
  /\ MapHas(internal, key)
  /\ MapGet(internal, key).timeout <= now
  /\ internal' = invalidate(internal, key, now)
  /\ lastOp' = [op |-> "timeout", key |-> key]
  /\ UNCHANGED <<now, ttl, staleTime, cleanupOpt, stored>>
  /\ UNCHANGED notCache

\* the constructor's setInterval(() => this.cleanup(), checkInterval) fires
CleanupInterval ==
  /\ ~TimeoutDue
  /\ internal' = cleanup(internal, cleanupOpt)
  /\ lastOp' = [op |-> "cleanup", sizeBefore |-> Len(internal),
                before |-> IF Len(internal) > cleanupOpt.maxSize THEN internal ELSE <<>>]
  /\ stored' = Surviving(stored, cleanup(internal, cleanupOpt))
  /\ UNCHANGED <<now, ttl, staleTime, cleanupOpt>>
  /\ UNCHANGED notCache

Tick ==
  /\ ~TimeoutDue
  /\ now < MaxTime
  /\ now' = now + 1
  /\ lastOp' = [op |-> "tick"]
  /\ UNCHANGED <<internal, ttl, staleTime, cleanupOpt, stored>>
  /\ UNCHANGED notCache

CacheIdle ==
  /\ now = 0
  /\ internal = <<>>
  /\ ttl = 1
  /\ staleTime = 1
  /\ cleanupOpt = [type |-> "lru", maxSize |-> 1]
  /\ lastOp = [op |-> "init"]
  /\ stored = [k \in Keys |-> NoStore]

\* freshness: one cache, every per-call staleTime and ttl
CacheStep ==
  \/ \E key \in FreshKeys : Get(key)
  \/ \E key \in FreshKeys, value \in Values : Store(key, value)
  \/ \E key \in FreshKeys, value \in Values, ttlArg \in 1..MaxTtl :
       \E staleArg \in 0..ttlArg : StoreWithInvalidation(key, value, staleArg, ttlArg)
  \/ \E key \in FreshKeys : Invalidate(key)
  \/ \E key \in FreshKeys : TimeoutFire(key)
  \/ CleanupInterval
  \/ Tick

(***************************************************************************)
(* C1: after store(k, v, staleTime = s, ttl = t) at t0 with s <= t, and no *)
(* later store, invalidate or eviction of k, get(k) at time r returns      *)
(* {v, isStale: false} when r < t0 + s, {v, isStale: true} when            *)
(* t0 + s <= r < t0 + t, and absent when r >= t0 + t.                      *)
(***************************************************************************)
C1_FreshnessMonotonicity ==
  (/\ lastOp.op = "get"
   /\ stored[lastOp.key].set
   /\ stored[lastOp.key].staleTime <= stored[lastOp.key].ttl)
  => LET st == stored[lastOp.key] IN
     IF now < st.at + st.staleTime
     THEN lastOp.result = [present |-> TRUE, value |-> st.value, isStale |-> FALSE]
     ELSE IF now < st.at + st.ttl
          THEN lastOp.result = [present |-> TRUE, value |-> st.value, isStale |-> TRUE]
          ELSE lastOp.result = Absent

\* the entry of key is present and has not expired
Unexpired(m, key, t) == MapHas(m, key) /\ MapGet(m, key).expiresAt > t

(***************************************************************************)
(* C26: a store on a key holding an unexpired entry replaces the value,    *)
(* sets stale = now + staleTime and expiresAt = now + ttl of the call,     *)
(* keeps created and adds 1 to useCount; a store on an absent or expired   *)
(* key creates the entry with created = now and useCount = 1; a get on an  *)
(* unexpired entry adds 1 to its useCount and changes no other field;      *)
(* invalidate removes the entry and changes nothing when the key is        *)
(* absent.                                                                 *)
(***************************************************************************)
C26_StoreGetBookkeeping ==
  [][/\ lastOp'.op = "store" =>
          LET k == lastOp'.key
              old == MapGet(internal, k)
              new == MapGet(internal', k)
          IN  /\ MapHas(internal', k)
              /\ new.value = stored'[k].value
              /\ new.stale = now + stored'[k].staleTime
              /\ new.expiresAt = now + stored'[k].ttl
              /\ new.created = IF Unexpired(internal, k, now) THEN old.created ELSE now
              /\ new.useCount = IF Unexpired(internal, k, now) THEN old.useCount + 1 ELSE 1
     /\ (lastOp'.op = "get" /\ Unexpired(internal, lastOp'.key, now)) =>
          /\ MapGet(internal', lastOp'.key) =
               [MapGet(internal, lastOp'.key) EXCEPT !.useCount = @ + 1]
          /\ lastOp'.result.value = MapGet(internal, lastOp'.key).value
     /\ lastOp'.op = "invalidate" =>
          /\ ~MapHas(internal', lastOp'.key)
          /\ ~MapHas(internal, lastOp'.key) => internal' = internal]_vars

\* eviction: more keys than maxSize, stored with the cache's defaults
EvictStep ==
  \/ \E key \in Keys : Get(key)
  \/ \E key \in Keys : Store(key, 1)
  \/ \E key \in Keys : Invalidate(key)
  \/ \E key \in Keys : TimeoutFire(key)
  \/ CleanupInterval
  \/ Tick

EvictionRan == lastOp.op \in {"store", "cleanup"} /\ lastOp.sizeBefore > cleanupOpt.maxSize

(***************************************************************************)
(* C2: once a store has returned the cache holds at most maxSize entries;  *)
(* an eviction pass that finds size > maxSize leaves exactly               *)
(* floor(maxSize / 2) entries, a pass that finds size <= maxSize removes   *)
(* nothing.                                                                *)
(***************************************************************************)
C2_EvictionSizeBound ==
  /\ Len(internal) <= cleanupOpt.maxSize
  /\ lastOp.op \in {"store", "cleanup"} =>
       IF lastOp.sizeBefore > cleanupOpt.maxSize
       THEN Len(internal) = cleanupOpt.maxSize \div 2
       ELSE Len(internal) = lastOp.sizeBefore

C2_Witness ==
  /\ lastOp.op = "store"
  /\ lastOp.sizeBefore > cleanupOpt.maxSize
  /\ cleanupOpt.maxSize = 2
  /\ Len(internal) = 1

(***************************************************************************)
(* C3: an eviction pass that runs with size > maxSize retains the          *)
(* floor(maxSize / 2) entries with the highest useCount (lru) or the       *)
(* newest created (oldest): no discarded entry has a strictly higher       *)
(* useCount (newer created) than a retained one, and the retained entries  *)
(* are unchanged in every field.                                           *)
(***************************************************************************)
Discarded == {i \in 1..Len(lastOp.before) : lastOp.before[i].key \notin KeysOf(internal)}

C28_ReadYourWrite ==
  lastOp.op = "store" =>
    /\ get(internal, lastOp.key, now).result.present
    /\ get(internal, lastOp.key, now).result.value = 1
    /\ lastOp.sizeBefore > cleanupOpt.maxSize => lastOp.key \in KeysOf(internal)

(***************************************************************************)
(* Circuit breaker (src/unnamed/part_005, createCircuitBreaker)            *)
(*                                                                         *)
(* failureCount and halfOpen are signals; status and isClosed are computed *)
(* from them.  The reset effect depends on isClosed alone: it runs again   *)
(* only when a read of isClosed has produced a value different from the    *)
(* one cached before (cb.cached is the computed's cached value, cb.dirty   *)
(* says that it changed since the effect last ran).  cb.timer is the       *)
(* pending setTimeout(tryOnce, resetTimeout).                              *)
(***************************************************************************)
StatusOffByOneMutant(c) ==
  IF c.failureCount > treshold THEN "CLOSED"
  ELSE IF c.halfOpen THEN "HALF_OPEN" ELSE "OPEN"

status(c) ==
  IF c.failureCount >= treshold THEN "CLOSED"
  ELSE IF c.halfOpen THEN "HALF_OPEN" ELSE "OPEN"

isClosed(c) == status(c) = "CLOSED"

\* a read of the computed isClosed: recomputes it and notes a changed value
readIsClosed(c) ==
  IF isClosed(c) = c.cached THEN c
  ELSE [c EXCEPT !.cached = isClosed(c), !.dirty = TRUE]

SuccessKeepsHalfOpenMutant(c) == [c EXCEPT !.failureCount = 0]

success(c) == [c EXCEPT !.failureCount = 0, !.halfOpen = FALSE]

fail(c) == [c EXCEPT !.failureCount = c.failureCount + 1, !.halfOpen = FALSE]

TryOnceKeepsCountMutant(c) ==
  LET r == readIsClosed(c) IN
  IF ~isClosed(r) THEN r
  ELSE [r EXCEPT !.halfOpen = TRUE]

tryOnce(c) ==
  LET r == readIsClosed(c) IN
  IF ~isClosed(r) THEN r
  ELSE [r EXCEPT !.halfOpen = TRUE, !.failureCount = treshold - 1]

\* the effect: skipped unless isClosed changed; its cleanup clears the timer,
\* and while isClosed it sets a new one
effectRun(c) ==
  LET r == readIsClosed(c) IN
  IF ~r.dirty THEN r
  ELSE [r EXCEPT !.dirty = FALSE, !.timer = isClosed(r)]

NewBreaker == [failureCount |-> 0, halfOpen |-> FALSE, cached |-> FALSE,
               dirty |-> FALSE, timer |-> FALSE]

\* cbHist.fails: fail() calls since the last success() (or since creation);
\* cbHist.probed: tryOnce has reopened the breaker since then
NoSignals == [last |-> "none", fails |-> 0, probed |-> FALSE]

BreakerIdle ==
  /\ cb = NewBreaker
  /\ treshold = 1
  /\ cbHist = NoSignals

InitBreaker ==
  /\ cb = NewBreaker
  /\ treshold \in 1..MaxTreshold
  /\ cbHist = NoSignals

Fail ==
  /\ cb.failureCount < MaxFailureCount
  /\ cbHist.fails < MaxFailureCount
  /\ cb' = fail(cb)
  /\ cbHist' = [cbHist EXCEPT !.last = "fail", !.fails = @ + 1]
  /\ UNCHANGED treshold
  /\ UNCHANGED notBreaker

Success ==
  /\ cb' = success(cb)
  /\ cbHist' = [last |-> "success", fails |-> 0, probed |-> FALSE]
  /\ UNCHANGED treshold
  /\ UNCHANGED notBreaker

HalfOpen ==
  /\ cb' = tryOnce(cb)
  /\ cbHist' = [cbHist EXCEPT !.last = "halfOpen", !.probed = @ \/ isClosed(cb)]
  /\ UNCHANGED treshold
  /\ UNCHANGED notBreaker

ResetTimerFire ==
  /\ cb.timer
  /\ cb' = tryOnce([cb EXCEPT !.timer = FALSE])
  /\ cbHist' = [cbHist EXCEPT !.last = "timer", !.probed = @ \/ isClosed(cb)]
  /\ UNCHANGED treshold
  /\ UNCHANGED notBreaker

EffectFlush ==
  /\ cb' = effectRun(cb)
  /\ cbHist' = [cbHist EXCEPT !.last = "effect"]
  /\ UNCHANGED treshold
  /\ UNCHANGED notBreaker

\* a caller reads isClosed() (the resource's req, a template)
ReadIsClosed ==
  /\ cb' = readIsClosed(cb)
  /\ cbHist' = [cbHist EXCEPT !.last = "read"]
  /\ UNCHANGED treshold
  /\ UNCHANGED notBreaker

BreakerStep ==
  \/ Fail
  \/ Success
  \/ HalfOpen
  \/ ResetTimerFire
  \/ EffectFlush
  \/ ReadIsClosed

(***************************************************************************)
(* C4: a breaker that starts Available is unavailable (isClosed) exactly   *)
(* when the fail() calls since the last success() number at least the      *)
(* threshold, and not earlier; a success() resets failureCount to 0.       *)
(* The statement is about runs of fail()/success() calls: it is read for   *)
(* the states no reset (tryOnce) has touched since the last success().     *)
(***************************************************************************)
C4_BreakerThreshold ==
  /\ ~cbHist.probed => (isClosed(cb) <=> cbHist.fails >= treshold)
  /\ cbHist.last = "success" => cb.failureCount = 0 /\ ~isClosed(cb)

C4_Witness ==
  /\ treshold = 3
  /\ cbHist.fails = 3
  /\ cbHist.last = "fail"
  /\ ~cbHist.probed
  /\ isClosed(cb)

(***************************************************************************)
(* Recovery.  A call of fail(), success() or halfOpen(), and the reset     *)
(* timer, each run in a task of their own; the effects a task has made     *)
(* dirty run when it ends, before the next task.                           *)
(***************************************************************************)
FailTask ==
  /\ cb.failureCount < MaxFailureCount
  /\ cbHist.fails < MaxRecoveryFails
  /\ cb' = effectRun(fail(cb))
  /\ cbHist' = [cbHist EXCEPT !.last = "fail", !.fails = @ + 1]
  /\ UNCHANGED treshold
  /\ UNCHANGED notBreaker

SuccessTask ==
  /\ cb' = effectRun(success(cb))
  /\ cbHist' = [last |-> "success", fails |-> 0, probed |-> FALSE]
  /\ UNCHANGED treshold
  /\ UNCHANGED notBreaker

HalfOpenTask ==
  /\ cb' = effectRun(tryOnce(cb))
  /\ cbHist' = [cbHist EXCEPT !.last = "halfOpen", !.probed = @ \/ isClosed(cb)]
  /\ UNCHANGED treshold
  /\ UNCHANGED notBreaker

ResetTimerTask ==
  /\ cb.timer
  /\ cb' = effectRun(tryOnce([cb EXCEPT !.timer = FALSE]))
  /\ cbHist' = [cbHist EXCEPT !.last = "timer", !.probed = @ \/ isClosed(cb)]
  /\ UNCHANGED treshold
  /\ UNCHANGED notBreaker

RecoveryStep ==
  \/ FailTask
  \/ SuccessTask
  \/ HalfOpenTask
  \/ ResetTimerTask

(***************************************************************************)
(* C13: in every Blocking state (isClosed) one reset timer is pending, and *)
(* none outside it; the timer, or halfOpen() in Blocking, moves the        *)
(* breaker to HALF_OPEN with failureCount = treshold - 1 and leaves no     *)
(* timer; from HALF_OPEN one fail() leads back to Blocking with a timer    *)
(* pending and success() leads to OPEN with failureCount = 0; halfOpen()   *)
(* outside Blocking changes nothing.  With the reset timer eventually      *)
(* firing, a Blocking breaker always leaves Blocking.                      *)
(***************************************************************************)
C13_BreakerRecovery ==
  /\ [](isClosed(cb) <=> cb.timer)
  /\ (isClosed(cb) ~> ~isClosed(cb))
  /\ [][(isClosed(cb) /\ cbHist'.last \in {"timer", "halfOpen"}) =>
         (/\ status(cb') = "HALF_OPEN"
          /\ cb'.failureCount = treshold - 1
          /\ ~cb'.timer)]_vars
  /\ [][(status(cb) = "HALF_OPEN" /\ cbHist'.last = "fail") =>
         (isClosed(cb') /\ cb'.timer)]_vars
  /\ [][(status(cb) = "HALF_OPEN" /\ cbHist'.last = "success") =>
         (status(cb') = "OPEN" /\ cb'.failureCount = 0)]_vars
  /\ [][(~isClosed(cb) /\ cbHist'.last = "halfOpen") =>
         (/\ cb'.failureCount = cb.failureCount
          /\ cb'.halfOpen = cb.halfOpen
          /\ cb'.timer = cb.timer)]_vars

C13_Witness ==
  /\ cbHist.probed
  /\ cbHist.last = "fail"
  /\ isClosed(cb)
  /\ cb.timer
  /\ cb.failureCount = treshold

(***************************************************************************)
(* C30: in every state reached by fail(), success(), halfOpen() and the    *)
(* reset timer, with treshold >= 1: the breaker is CLOSED (Blocking), to   *)
(* its observers too, exactly when failureCount >= treshold; it is         *)
(* HALF_OPEN (Probing) only with failureCount = treshold - 1; failureCount *)
(* is never negative; and a reset timer is pending whenever it is CLOSED.  *)
(***************************************************************************)
C30_BreakerStateInvariant ==
  /\ status(cb) = "CLOSED" <=> cb.failureCount >= treshold
  /\ cb.cached <=> cb.failureCount >= treshold
  /\ status(cb) = "HALF_OPEN" => cb.failureCount = treshold - 1
  /\ cb.failureCount >= 0
  /\ cb.failureCount >= treshold => cb.timer

C30_Witness ==
  /\ status(cb) = "HALF_OPEN"
  /\ cb.failureCount = treshold - 1
  /\ treshold > 1
  /\ cbHist.last = "timer"
  /\ cbHist.fails > treshold

(***************************************************************************)
(* C24: a Blocking breaker stays Blocking or becomes HALF_OPEN with        *)
(* failureCount = treshold - 1, whatever is called on it; failureCount     *)
(* returns to 0 only by success() on a breaker that is not Blocking, or as *)
(* treshold - 1 on entering HALF_OPEN.                                     *)
(***************************************************************************)
C24_LeavingBlocking ==
  [][/\ isClosed(cb) =>
          \/ isClosed(cb')
          \/ status(cb') = "HALF_OPEN" /\ cb'.failureCount = treshold - 1
     /\ (cb.failureCount # 0 /\ cb'.failureCount = 0) =>
          \/ cbHist'.last = "success" /\ ~isClosed(cb)
          \/ status(cb') = "HALF_OPEN" /\ treshold = 1]_vars

(***************************************************************************)
(* Request deduplication (src/unnamed/part_001,                            *)
(* createDedupeRequestsInterceptor)                                        *)
(*                                                                         *)
(* inFlight maps req.urlWithParams to the observable                       *)
(* next(req).pipe(finalize(delete), shareReplay()); an observable is       *)
(* identified by the transport call behind it.  HttpClient runs the        *)
(* interceptor when the caller subscribes, so interception and             *)
(* subscription are one step.  shareReplay() keeps the source subscribed   *)
(* when callers unsubscribe (refCount is false).                           *)
(***************************************************************************)
Urls == 1..NumUrls
Methods == {"GET", "DELETE", "POST"}
DEDUPE_METHODS == {"GET", "DELETE", "PUT", "HEAD", "OPTIONS"}

NoOutcome == [kind |-> "none", call |-> 0]

\* next(req): a new transport call
NewCall(method, url, shared) ==
  [method |-> method, url |-> url, shared |-> shared, state |-> "pending"]

\* the interceptor body: the call the caller's observable is connected to
InterceptorNoShareMutant(inFl, cs, method, url, noDedupe) ==
  IF method \notin DEDUPE_METHODS \/ noDedupe
  THEN [inFlight |-> inFl, calls |-> Append(cs, NewCall(method, url, FALSE)),
        call |-> Len(cs) + 1]
  ELSE [inFlight |-> [inFl EXCEPT ![url] = Len(cs) + 1],
        calls |-> Append(cs, NewCall(method, url, TRUE)),
        call |-> Len(cs) + 1]

interceptor(inFl, cs, method, url, noDedupe) ==
  IF method \notin DEDUPE_METHODS \/ noDedupe
  THEN [inFlight |-> inFl, calls |-> Append(cs, NewCall(method, url, FALSE)),
        call |-> Len(cs) + 1]
  ELSE LET found == inFl[url] IN
       IF found # 0
       THEN [inFlight |-> inFl, calls |-> cs, call |-> found]
       ELSE [inFlight |-> [inFl EXCEPT ![url] = Len(cs) + 1],
             calls |-> Append(cs, NewCall(method, url, TRUE)),
             call |-> Len(cs) + 1]

\* finalize(() => inFlight.delete(req.urlWithParams)), only on the shared path
FinalizeKeepsEntryMutant(inFl, c) == inFl

finalize(inFl, c) == IF c.shared THEN [inFl EXCEPT ![c.url] = 0] ELSE inFl

\* what a subscriber of call c holds: nothing while it is pending, else its
\* response or error (a settled shareReplay replays it to a late subscriber)
OutcomeOf(cs, c) ==
  IF cs[c].state = "pending" THEN NoOutcome ELSE [kind |-> cs[c].state, call |-> c]

Eligible(r) == r.method \in DEDUPE_METHODS /\ ~r.noDedupe

DedupeIdle ==
  /\ inFlight = [u \in Urls |-> 0]
  /\ calls = <<>>
  /\ reqs = <<>>

\* a caller subscribes to client.request(method, url): the interceptor runs
Intercept(method, url, noDedupe) ==
  /\ Len(reqs) < MaxRequests
  /\ LET r == interceptor(inFlight, calls, method, url, noDedupe) IN
       /\ inFlight' = r.inFlight
       /\ calls' = r.calls
       /\ reqs' = Append(reqs,
            [method |-> method, url |-> url, noDedupe |-> noDedupe,
             call |-> r.call, aborted |-> FALSE,
             outcome |-> OutcomeOf(r.calls, r.call),
             \* history: the earlier dedupe-eligible requests with this key
             \* that were still waiting for their outcome when this one arrived
             peers |-> IF method \in DEDUPE_METHODS /\ ~noDedupe
                       THEN {i \in 1..Len(reqs) :
                               /\ Eligible(reqs[i])
                               /\ reqs[i].url = url
                               /\ ~reqs[i].aborted
                               /\ reqs[i].outcome = NoOutcome}
                       ELSE {},
             \* history: the call it was connected to had already settled
             late |-> r.calls[r.call].state # "pending"])
  /\ UNCHANGED notDedupe

\* the transport call settles with a response or an error
Settle(c, kind) ==
  /\ c \in 1..Len(calls)
  /\ calls[c].state = "pending"
  /\ calls' = [calls EXCEPT ![c].state = kind]
  /\ inFlight' = finalize(inFlight, calls[c])
  /\ reqs' = [i \in 1..Len(reqs) |->
                IF reqs[i].call = c /\ ~reqs[i].aborted
                THEN [reqs[i] EXCEPT !.outcome = [kind |-> kind, call |-> c]]
                ELSE reqs[i]]
  /\ UNCHANGED notDedupe

\* a caller unsubscribes before the outcome (a superseded resource request)
Abort(i) ==
  /\ i \in 1..Len(reqs)
  /\ reqs[i].outcome = NoOutcome
  /\ ~reqs[i].aborted
  /\ reqs' = [reqs EXCEPT ![i].aborted = TRUE]
  /\ UNCHANGED <<inFlight, calls>>
  /\ UNCHANGED notDedupe

DedupeStep ==
  \/ \E method \in Methods, url \in Urls, noDedupe \in BOOLEAN :
       Intercept(method, url, noDedupe)
  \/ \E c \in 1..MaxRequests, kind \in {"ok", "error"} : Settle(c, kind)
  \/ \E i \in 1..MaxRequests : Abort(i)

(***************************************************************************)
(* C5: dedupe-eligible requests with the same key that arrive while none   *)
(* of them has settled are served by one transport call, and all of them   *)
(* observe the same outcome (the same response or the same error).         *)
(***************************************************************************)
C5_DedupSingleFlight ==
  \A b \in 1..Len(reqs) : \A a \in reqs[b].peers :
    /\ reqs[a].call = reqs[b].call
    /\ (~reqs[a].aborted /\ ~reqs[b].aborted) => reqs[a].outcome = reqs[b].outcome

C5_Witness ==
  /\ Len(reqs) >= 2
  /\ reqs[2].peers = {1}
  /\ Len(calls) = 1
  /\ \A i \in 1..2 : reqs[i].outcome = [kind |-> "error", call |-> 1]

(***************************************************************************)
(* C10: at most one dedupe-eligible call is in flight per key; a pending   *)
(* entry exists exactly while its call is unsettled, so a request that     *)
(* arrives after the settlement never receives the settled outcome and     *)
(* triggers a new transport call.                                          *)
(***************************************************************************)
PendingShared(u) ==
  {c \in 1..Len(calls) : calls[c].shared /\ calls[c].url = u /\ calls[c].state = "pending"}

C10_DedupEntryLifetime ==
  /\ \A u \in Urls :
       /\ Cardinality(PendingShared(u)) <= 1
       /\ inFlight[u] # 0 => PendingShared(u) = {inFlight[u]}
       /\ inFlight[u] = 0 => PendingShared(u) = {}
  /\ \A i \in 1..Len(reqs) : ~reqs[i].late

C10_Witness ==
  /\ Len(reqs) >= 2
  /\ Eligible(reqs[1]) /\ Eligible(reqs[2])
  /\ reqs[1].url = reqs[2].url
  /\ reqs[1].outcome.kind = "ok"
  /\ reqs[2].peers = {}
  /\ reqs[2].call = 2
  /\ inFlight[reqs[2].url] = 2

(***************************************************************************)
(* C11: two requests are connected to the same transport call only if      *)
(* they are identical (same method, same URL with params) and both are     *)
(* dedupe-eligible; requests that differ in method, no-dedupe requests     *)
(* and POST requests have a call of their own.                             *)
(***************************************************************************)
C11_DedupOnlyIdentical ==
  \A a \in 1..Len(reqs) : \A b \in 1..Len(reqs) :
    (a # b /\ reqs[a].call = reqs[b].call) =>
      /\ Eligible(reqs[a]) /\ Eligible(reqs[b])
      /\ reqs[a].url = reqs[b].url
      /\ reqs[a].method = reqs[b].method

(***************************************************************************)
(* The resource controller (src/unnamed/part_003, extendedHttpResource)    *)
(* and its retry policy (src/src/app/util/retry-on-error.ts, retryOnError) *)
(*                                                                         *)
(* A request descriptor is a number, 0 is undefined; descriptors are       *)
(* compared by createEqualRequest.  res.request is the caller's request()  *)
(* signal, res.ext the value of req the underlying httpResource has last   *)
(* seen, res.status its status, res.loading the descriptor of the load it  *)
(* awaits (0: none), res.needsLoad that its load effect has a load to      *)
(* start.  res.emitted is the status the status subscribers (the retry     *)
(* effect, statusSub) have last run for.  res.cb is the controller's own   *)
(* circuit breaker.  res.timers are the pending setTimeout handles of the  *)
(* retry policy, res.timeout its `timeout` variable (0: undefined).        *)
(* A handler runs to completion together with the effects it makes dirty.  *)
(* Timers are untimed: a pending timer may fire at any later step.         *)
(***************************************************************************)
Descriptors == 1..NumDescriptors

RECURSIVE Pow2(_)
Pow2(n) == IF n <= 0 THEN 1 ELSE 2 * Pow2(n - 1)

equalRequest(a, b) == a = b

NoHistory ==
  [last |-> "none", blockedCall |-> FALSE, leftClosedBy |-> "none",
   runFails |-> 0, sched |-> <<>>]

NewResource ==
  [request |-> 0, ext |-> 0, status |-> "Idle", needsLoad |-> FALSE,
   loading |-> 0, emitted |-> "Idle", cb |-> NewBreaker,
   retries |-> 0, timeout |-> 0, timers |-> <<>>, refreshSub |-> FALSE,
   intervals |-> 0, destroyed |-> FALSE, hist |-> NoHistory]

NoRetry == [max |-> 0, backoff |-> 1, refresh |-> FALSE]

\* history: the mutate call whose write a settlement is of, and the mutate
\* call whose context its callbacks were handed
NoSettlement == [writer |-> 0, ctx |-> 0]

NewMutation == [nextRequest |-> 0, ctx |-> 0, log |-> <<>>, orphans |-> 0,
                writer |-> 0, settled |-> NoSettlement]

\* req: undefined while the breaker is unavailable, else the caller's request
ReqUngatedMutant(c, request) == request

req(c, request) == IF isClosed(c) THEN 0 ELSE request

disabled(R) == isClosed(R.cb) \/ req(R.cb, R.request) = 0

\* httpResource: its state follows req; a changed request drops the load in
\* progress and makes the status Idle (undefined) or Loading
derive(R) ==
  LET c == readIsClosed(R.cb)
      q == req(c, R.request)
  IN  IF R.destroyed \/ equalRequest(q, R.ext) THEN [R EXCEPT !.cb = c]
      ELSE [R EXCEPT !.cb = c, !.ext = q, !.loading = 0,
                     !.status = IF q = 0 THEN "Idle" ELSE "Loading",
                     !.needsLoad = (q # 0)]

\* httpResource's load effect: starts the transport call for the request
loadEffect(R) ==
  IF ~R.needsLoad THEN R
  ELSE [R EXCEPT !.needsLoad = FALSE, !.loading = R.ext,
                 !.hist.blockedCall = @ \/ isClosed(R.cb)]

\* httpResource.reload(): refused when Idle or loading
resourceReload(R) ==
  LET D == derive(R) IN
  IF D.status \in {"Idle", "Loading", "Reloading"} THEN D
  ELSE [D EXCEPT !.status = "Reloading", !.needsLoad = TRUE]

\* retryOnError
clearTimeout(timers, id) ==
  IF id = 0 THEN timers ELSE SelectSeq(timers, LAMBDA t : t.id # id)

NewTimerId(timers) ==
  CHOOSE i \in 1..(Len(timers) + 1) :
    /\ \A k \in 1..Len(timers) : timers[k].id # i
    /\ \A j \in 1..(i - 1) : \E k \in 1..Len(timers) : timers[k].id = j

retryDelay(retries, backoff) ==
  IF retries <= 0 THEN 0 ELSE backoff * Pow2(retries - 1)

OnErrorDelayMutant(R) ==
  IF R.retries >= options.max THEN R
  ELSE LET n == R.retries + 1
           t == clearTimeout(R.timers, R.timeout)
           d == retryDelay(n + 1, options.backoff)
       IN  [R EXCEPT !.retries = n,
                     !.timers = Append(t, [id |-> NewTimerId(t), delay |-> d]),
                     !.hist.sched = Append(@, d)]

onError(R) ==
  IF R.retries >= options.max THEN R
  ELSE LET n == R.retries + 1
           t == clearTimeout(R.timers, R.timeout)
           d == retryDelay(n, options.backoff)
       IN  [R EXCEPT !.retries = n,
                     !.timers = Append(t, [id |-> NewTimerId(t), delay |-> d]),
                     !.hist.sched = Append(@, d)]

onSuccess(R) ==
  [R EXCEPT !.timers = clearTimeout(R.timers, R.timeout), !.retries = 0]

\* the status subscribers run for a status they have not seen: the retry
\* effect (onError / onSuccess) and statusSub (cb.fail / cb.success)
Terminal(R) == R.status # R.emitted /\ R.status \in {"Resolved", "Error"}

statusEffects(R) ==
  IF R.destroyed \/ R.status = R.emitted THEN R
  ELSE IF R.status = "Error"
    THEN LET E == onError(R) IN
         [E EXCEPT !.emitted = "Error", !.cb = fail(E.cb),
                   !.hist.runFails = @ + 1]
  ELSE IF R.status = "Resolved"
    THEN LET S == onSuccess(R) IN
         [S EXCEPT !.emitted = "Resolved", !.cb = success(S.cb),
                   !.hist.runFails = 0, !.hist.sched = <<>>]
  ELSE [R EXCEPT !.emitted = R.status]

\* the effects that a handler has made dirty run until none is left
FlushRest(R) ==
  LET A == statusEffects(loadEffect(derive(R)))
  IN  [A EXCEPT !.cb = effectRun(A.cb)]

Flush(R) == FlushRest(statusEffects(loadEffect(derive(R))))

\* the handlers
setRequest(R, d) == Flush([R EXCEPT !.request = d])

settle(R, ok) ==
  Flush([R EXCEPT !.status = IF ok THEN "Resolved" ELSE "Error",
                  !.loading = 0])

retryTimer(R, i) ==
  Flush(resourceReload(
    [R EXCEPT !.timers = SelectSeq(R.timers, LAMBDA t : t.id # R.timers[i].id)]))

refreshTick(R) == Flush(resourceReload(R))

\* interval(options.refresh).subscribe(...) and its unsubscribe(): intervals
\* counts the interval subscriptions that are active, refreshSub tells that
\* the handle holds one of them
subscribeRefresh(R) ==
  IF options.refresh THEN [R EXCEPT !.refreshSub = TRUE, !.intervals = @ + 1]
  ELSE R

unsubscribeRefresh(R) ==
  IF R.refreshSub THEN [R EXCEPT !.refreshSub = FALSE, !.intervals = @ - 1]
  ELSE R

ReloadKeepsIntervalMutant(R) ==
  LET a == [R EXCEPT !.refreshSub = FALSE, !.cb = tryOnce(R.cb)]
      b == resourceReload(a)
  IN  Flush(subscribeRefresh(b))

reload(R) ==
  LET a == [unsubscribeRefresh(R) EXCEPT !.cb = tryOnce(R.cb)]
      b == resourceReload(a)
  IN  Flush(subscribeRefresh(b))

prefetch(R) ==
  LET c == readIsClosed(R.cb)
      q == req(c, R.request)
  IN  Flush([R EXCEPT !.cb = c,
                      !.hist.blockedCall = @ \/ (q # 0 /\ isClosed(c))])

resetTimer(R) ==
  Flush([R EXCEPT !.cb = tryOnce([R.cb EXCEPT !.timer = FALSE])])

\* destroy(): the refresh interval and statusSub are unsubscribed, the retry
\* effect is destroyed, and httpResource drops its load and becomes Idle
destroy(R) ==
  Flush([unsubscribeRefresh(R) EXCEPT !.destroyed = TRUE, !.status = "Idle",
                  !.emitted = "Idle", !.ext = 0, !.loading = 0,
                  !.needsLoad = FALSE])

\* history: the handler that ran last, and the one that took the breaker
\* out of the unavailable state
Note(name, R0, R1) ==
  [R1 EXCEPT !.hist.last = name,
             !.hist.leftClosedBy =
               IF isClosed(R0.cb) /\ ~isClosed(R1.cb) THEN name ELSE @]

ResourceIdle ==
  /\ res = NewResource
  /\ options = NoRetry
  /\ mut = NewMutation

InitResource ==
  /\ options \in [max : 0..MaxRetries, backoff : 1..MaxBackoff, refresh : BOOLEAN]
  /\ \E d \in {0} \cup Descriptors :
       res = Flush(subscribeRefresh([NewResource EXCEPT !.request = d]))
  /\ mut = NewMutation

SetRequest(d) ==
  /\ res' = Note("request", res, setRequest(res, d))
  /\ UNCHANGED <<options, mut>>
  /\ UNCHANGED notResource

SettleLoad(ok) ==
  /\ res.loading # 0
  /\ ok \/ (res.hist.runFails < MaxRunFails /\ Len(res.timers) < MaxPendingRetries)
  /\ res' = Note(IF ok THEN "resolved" ELSE "failed", res, settle(res, ok))
  /\ UNCHANGED <<options, mut>>
  /\ UNCHANGED notResource

RetryTimerFire(i) ==
  /\ i \in 1..Len(res.timers)
  /\ res' = Note("retry", res, retryTimer(res, i))
  /\ UNCHANGED <<options, mut>>
  /\ UNCHANGED notResource

RefreshTick ==
  /\ res.intervals > 0
  /\ res' = Note("refresh", res, refreshTick(res))
  /\ UNCHANGED <<options, mut>>
  /\ UNCHANGED notResource

Reload ==
  /\ res' = Note("reload", res, reload(res))
  /\ UNCHANGED <<options, mut>>
  /\ UNCHANGED notResource

Prefetch ==
  /\ res' = Note("prefetch", res, prefetch(res))
  /\ UNCHANGED <<options, mut>>
  /\ UNCHANGED notResource

BreakerTimerFire ==
  /\ res.cb.timer
  /\ res' = Note("timer", res, resetTimer(res))
  /\ UNCHANGED <<options, mut>>
  /\ UNCHANGED notResource

Destroy ==
  /\ res' = Note("destroy", res, destroy(res))
  /\ UNCHANGED <<options, mut>>
  /\ UNCHANGED notResource

ResourceStep ==
  \/ \E d \in {0} \cup Descriptors : SetRequest(d)
  \/ \E ok \in BOOLEAN : SettleLoad(ok)
  \/ \E i \in 1..MaxPendingRetries : RetryTimerFire(i)
  \/ RefreshTick
  \/ Reload
  \/ Prefetch
  \/ BreakerTimerFire

(***************************************************************************)
(* C21: a resource never has more than one refresh interval active; when   *)
(* reload() returns the breaker is not Blocking, a transport call for the  *)
(* current request is under way if there is a request, and the refresh     *)
(* interval is active exactly if refresh is configured.                    *)
(***************************************************************************)
C21_Reload ==
  /\ res.intervals <= 1
  /\ res.hist.last = "reload" =>
       /\ ~isClosed(res.cb)
       /\ res.request # 0 => res.loading = res.request
       /\ res.refreshSub = options.refresh
       /\ res.intervals = IF options.refresh THEN 1 ELSE 0

C21_Witness ==
  /\ res.hist.last = "reload"
  /\ res.hist.leftClosedBy = "reload"
  /\ status(res.cb) = "HALF_OPEN"
  /\ res.loading # 0
  /\ res.intervals = 1

TeardownStep ==
  \/ \E d \in {0} \cup Descriptors : SetRequest(d)
  \/ \E ok \in BOOLEAN : SettleLoad(ok)
  \/ \E i \in 1..MaxPendingRetries : RetryTimerFire(i)
  \/ RefreshTick
  \/ Reload
  \/ Prefetch
  \/ BreakerTimerFire
  \/ Destroy

(***************************************************************************)
(* C7: while the breaker is unavailable (isClosed) the controller is       *)
(* disabled and starts no transport call, whichever handler runs (request  *)
(* change, retry timer, refresh tick, prefetch); only the reset timer or   *)
(* reload() take the breaker out of that state.                            *)
(***************************************************************************)
C7_BreakerGating ==
  /\ isClosed(res.cb) => disabled(res)
  /\ ~res.hist.blockedCall
  /\ res.hist.leftClosedBy \in {"none", "timer", "reload"}

C7_Witness ==
  /\ isClosed(res.cb)
  /\ res.request # 0
  /\ res.hist.last = "retry"
  /\ res.hist.leftClosedBy = "timer"

(***************************************************************************)
(* C8: once the resource is Resolved no retry timer is left pending and    *)
(* the retry counter is 0.                                                 *)
(***************************************************************************)
C8_RetryCancelledBySuccess ==
  res.status = "Resolved" => res.timers = <<>> /\ res.retries = 0

(***************************************************************************)
(* C25: at every instant at most one retry timer of the resource is        *)
(* pending.                                                                *)
(***************************************************************************)
C25_SinglePendingRetry == Len(res.timers) <= 1

(***************************************************************************)
(* C9: in a run of failures without a success the policy has scheduled     *)
(* min(failures, max) retries, the k-th with delay backoff * 2^(k-1);      *)
(* with max = 0 it schedules none.                                         *)
(***************************************************************************)
C9_RetryBoundAndBackoff ==
  /\ Len(res.hist.sched) =
       (IF res.hist.runFails < options.max THEN res.hist.runFails ELSE options.max)
  /\ \A k \in 1..Len(res.hist.sched) :
       res.hist.sched[k] = options.backoff * Pow2(k - 1)

C9_Witness ==
  /\ options.max = 2
  /\ options.backoff = 2
  /\ res.hist.runFails = 3
  /\ res.hist.sched = <<2, 4>>
  /\ res.hist.last = "failed"

(***************************************************************************)
(* The mutation resource (src/src/app/util/mutation-resource.ts)           *)
(*                                                                         *)
(* mut.nextRequest is the nextRequest signal (0: null), mut.ctx the one    *)
(* ctx variable (0: undefined).  onMutate returns a context that names     *)
(* the mutate call it was run for, so mut.log counts, per mutate call,     *)
(* the callbacks that were handed its context; mut.orphans counts the      *)
(* callbacks handed an undefined context.  The request of the wrapped      *)
(* controller is req, which follows nextRequest.                           *)
(***************************************************************************)
NewMutateCall(body) ==
  [body |-> body, onSuccess |-> 0, onError |-> 0, onSettled |-> 0]

\* the equal function of the nextRequest signal
nextRequestEqual(a, b) ==
  IF a = 0 /\ b = 0 THEN TRUE
  ELSE IF a = 0 \/ b = 0 THEN FALSE
  ELSE equalRequest(a, b)

\* the subscriber of statusSub, run for an Error or a Resolved status
statusSub(M, st) ==
  LET L == IF M.ctx = 0 THEN M.log
           ELSE [M.log EXCEPT
                   ![M.ctx].onError = IF st = "Error" THEN @ + 1 ELSE @,
                   ![M.ctx].onSuccess = IF st = "Resolved" THEN @ + 1 ELSE @,
                   ![M.ctx].onSettled = @ + 1]
  IN  [M EXCEPT !.log = L,
                !.orphans = IF M.ctx = 0 THEN 1 ELSE @,
                !.settled = [writer |-> M.writer, ctx |-> M.ctx],
                !.writer = 0,
                !.ctx = 0,
                !.nextRequest = 0]

\* the effects of the controller and of the mutation resource, run until
\* none is dirty
MutationFlush(R, M) ==
  LET A == loadEffect(derive(R))
      B == statusEffects(A)
      M1 == IF Terminal(A) THEN statusSub(M, A.status) ELSE M
  IN  [res |-> FlushRest([B EXCEPT !.request = M1.nextRequest]), mut |-> M1]

mutate(R, M, value) ==
  LET M1 == [M EXCEPT !.log = Append(@, NewMutateCall(value)),
                      !.ctx = Len(M.log) + 1,
                      !.writer = IF nextRequestEqual(M.nextRequest, value)
                                 THEN @ ELSE Len(M.log) + 1,
                      !.nextRequest =
                        IF nextRequestEqual(@, value) THEN @ ELSE value]
  IN  MutationFlush([R EXCEPT !.request = M1.nextRequest], M1)

InitMutation ==
  /\ options \in [max : 0..MaxRetries, backoff : {1}, refresh : {FALSE}]
  /\ res = Flush(NewResource)
  /\ mut = NewMutation

Mutate(value) ==
  /\ Len(mut.log) < MaxMutations
  /\ LET S == mutate(res, mut, value) IN
       /\ res' = Note("mutate", res, S.res)
       /\ mut' = S.mut
  /\ UNCHANGED options
  /\ UNCHANGED notResource

MutationSettle(ok) ==
  /\ res.loading # 0
  /\ ok \/ (res.hist.runFails < MaxRunFails /\ Len(res.timers) < MaxPendingRetries)
  /\ LET S == MutationFlush(
                [res EXCEPT !.status = IF ok THEN "Resolved" ELSE "Error",
                            !.loading = 0], mut)
     IN  /\ res' = Note(IF ok THEN "resolved" ELSE "failed", res, S.res)
         /\ mut' = S.mut
  /\ UNCHANGED options
  /\ UNCHANGED notResource

MutationRetryFire(i) ==
  /\ i \in 1..Len(res.timers)
  /\ LET S == MutationFlush(resourceReload(
                [res EXCEPT !.timers =
                   SelectSeq(res.timers, LAMBDA t : t.id # res.timers[i].id)]), mut)
     IN  /\ res' = Note("retry", res, S.res)
         /\ mut' = S.mut
  /\ UNCHANGED options
  /\ UNCHANGED notResource

MutationResetFire ==
  /\ res.cb.timer
  /\ LET S == MutationFlush(
                [res EXCEPT !.cb = tryOnce([res.cb EXCEPT !.timer = FALSE])], mut)
     IN  /\ res' = Note("timer", res, S.res)
         /\ mut' = S.mut
  /\ UNCHANGED options
  /\ UNCHANGED notResource

MutationStep ==
  \/ \E value \in Descriptors : Mutate(value)
  \/ \E ok \in BOOLEAN : MutationSettle(ok)
  \/ \E i \in 1..MaxPendingRetries : MutationRetryFire(i)
  \/ MutationResetFire

(***************************************************************************)
(* C6: no mutate call is handed more than one onSuccess/onError or more    *)
(* than one onSettled, and once no write is wanted or under way every      *)
(* mutate call made so far has been handed exactly one onSuccess or        *)
(* onError and exactly one onSettled.                                      *)
(***************************************************************************)
MutationQuiet == mut.nextRequest = 0 /\ res.loading = 0 /\ ~res.needsLoad

C6_MutationSettlementOnce ==
  \A i \in 1..Len(mut.log) :
    /\ mut.log[i].onSuccess + mut.log[i].onError <= 1
    /\ mut.log[i].onSettled <= 1
    /\ MutationQuiet =>
         /\ mut.log[i].onSuccess + mut.log[i].onError = 1
         /\ mut.log[i].onSettled = 1

(***************************************************************************)
(* C20: the callbacks of a settlement are handed the context of the mutate *)
(* call that issued the settled write; no mutate call is handed onSettled  *)
(* without onSuccess or onError; when a settlement has run, no request and *)
(* no context are left; and right after mutate, with the breaker           *)
(* available, the write of its request is under way.                       *)
(***************************************************************************)
C20_MutationCallbackProtocol ==
  /\ mut.settled.ctx = mut.settled.writer
  /\ \A i \in 1..Len(mut.log) :
       mut.log[i].onSettled <= mut.log[i].onSuccess + mut.log[i].onError
  /\ res.hist.last \in {"resolved", "failed"} =>
       (mut.ctx = 0 /\ mut.nextRequest = 0)
  /\ (res.hist.last = "mutate" /\ ~isClosed(res.cb)) =>
       (res.loading # 0 /\ res.loading = mut.nextRequest)

(***************************************************************************)
(* Cache-control resolution (src/src/app/util/retry-on-error.ts,           *)
(* parseCacheControlHeader and resolveTimings)                             *)
(*                                                                         *)
(* A Cache-Control header is the sequence of its comma-separated parts;    *)
(* a part is its trimmed, lower-cased key and the integer parseInt reads   *)
(* from its value (NoValue: no value, or one that is not a number).  No    *)
(* header at all is the empty sequence.                                    *)
(***************************************************************************)
NoValue == -1
MsPerSecond == 1000

DirectiveKeys ==
  {"no-store", "no-cache", "must-revalidate", "immutable", "max-age",
   "s-maxage", "s-max-age", "stale-while-revalidate"}

Part(key, value) == [key |-> key, value |-> value]

NoDirectives ==
  [noStore |-> FALSE, noCache |-> FALSE, mustRevalidate |-> FALSE,
   immutable |-> FALSE, maxAge |-> Undefined, staleWhileRevalidate |-> Undefined,
   sMaxAge |-> Undefined]

\* one turn of the loop over the parts: the switch on the key
parsePart(d, part) ==
  IF part.key = "no-store" THEN [d EXCEPT !.noStore = TRUE]
  ELSE IF part.key = "no-cache" THEN [d EXCEPT !.noCache = TRUE]
  ELSE IF part.key \in {"must-revalidate", "proxy-revalidate"}
    THEN [d EXCEPT !.mustRevalidate = TRUE]
  ELSE IF part.key = "immutable" THEN [d EXCEPT !.immutable = TRUE]
  ELSE IF part.key = "max-age"
    THEN IF part.value = NoValue THEN d ELSE [d EXCEPT !.maxAge = part.value]
  ELSE IF part.key = "s-max-age"
    THEN IF part.value = NoValue THEN d ELSE [d EXCEPT !.sMaxAge = part.value]
  ELSE IF part.key = "stale-while-revalidate"
    THEN IF part.value = NoValue THEN d
         ELSE [d EXCEPT !.staleWhileRevalidate = part.value]
  ELSE d

RECURSIVE parseParts(_, _)
parseParts(d, parts) ==
  IF parts = <<>> THEN d
  ELSE parseParts(parsePart(d, Head(parts)), Tail(parts))

Resolved(d) ==
  [noStore |-> d.noStore, noCache |-> d.noCache,
   mustRevalidate |-> d.mustRevalidate, immutable |-> d.immutable,
   maxAge |-> d.maxAge, staleWhileRevalidate |-> d.staleWhileRevalidate]

parseCacheControlHeader(header) ==
  IF header = <<>> THEN Resolved(NoDirectives)
  ELSE LET p == parseParts(NoDirectives, header)
           \* s-max-age takes precedence over max-age
           d == IF p.sMaxAge # Undefined THEN [p EXCEPT !.maxAge = p.sMaxAge] ELSE p
       IN  IF d.noStore
           THEN Resolved([NoDirectives EXCEPT !.noStore = TRUE])
           ELSE IF d.immutable THEN Resolved([d EXCEPT !.maxAge = Undefined])
           ELSE Resolved(d)

resolveTimings(cacheControl, staleArg, ttlArg) ==
  IF cacheControl.immutable THEN [staleTime |-> Infinity, ttl |-> Infinity]
  ELSE LET s1 == IF cacheControl.noCache \/ cacheControl.mustRevalidate
                 THEN 0 ELSE staleArg
           s2 == IF cacheControl.staleWhileRevalidate # Undefined
                 THEN cacheControl.staleWhileRevalidate ELSE s1
           t1 == IF cacheControl.maxAge # Undefined
                 THEN cacheControl.maxAge * MsPerSecond ELSE ttlArg
       IN  [staleTime |-> s2, ttl |-> t1]

\* the inputs of a resolution: a header of at most MaxParts parts, and the
\* caller's staleTime and ttl (opt.staleTime, opt.ttl)
Seconds == 0..MaxSeconds
Parts == {Part(k, v) : k \in DirectiveKeys, v \in {NoValue} \cup Seconds}
Headers == UNION {[1..n -> Parts] : n \in 0..MaxParts}
CallerTimes == {Undefined} \cup {0, MsPerSecond}

NoTimings ==
  [header |-> <<>>, staleTime |-> Undefined, ttl |-> Undefined, done |-> FALSE,
   result |-> [staleTime |-> Undefined, ttl |-> Undefined]]

TimingsIdle == timings = NoTimings

InitTimings ==
  timings \in [header : Headers, staleTime : CallerTimes, ttl : CallerTimes,
               done : {FALSE},
               result : {[staleTime |-> Undefined, ttl |-> Undefined]}]

\* the tap of the interceptor resolves the timings of a response
ResolveTimings ==
  /\ ~timings.done
  /\ timings' = [timings EXCEPT
       !.done = TRUE,
       !.result = resolveTimings(parseCacheControlHeader(timings.header),
                                 timings.staleTime, timings.ttl)]
  /\ UNCHANGED notTimings

\* a header that carries exactly the given directives, in any order
Carries(header, keys) ==
  /\ Len(header) = Cardinality(keys)
  /\ {header[i].key : i \in 1..Len(header)} = keys
  /\ \A i \in 1..Len(header) : header[i].value # NoValue

ValueOf(header, key) ==
  header[CHOOSE i \in 1..Len(header) : header[i].key = key].value

(***************************************************************************)
(* C14: a Cache-Control of max-age=A and stale-while-revalidate=N resolves *)
(* to ttl = A * 1000 ms and staleTime = N * 1000 ms; without a header the  *)
(* caller's staleTime and ttl are the result.                              *)
(***************************************************************************)
C14_CacheControlUnits ==
  timings.done =>
    /\ Carries(timings.header, {"max-age", "stale-while-revalidate"}) =>
         /\ timings.result.ttl = ValueOf(timings.header, "max-age") * 1000
         /\ timings.result.staleTime =
              ValueOf(timings.header, "stale-while-revalidate") * 1000
    /\ timings.header = <<>> =>
         timings.result = [staleTime |-> timings.staleTime, ttl |-> timings.ttl]

(***************************************************************************)
(* C15: with both s-maxage=S and max-age=A, in either order, the resolved  *)
(* ttl is S * 1000 ms; with max-age=A alone it is A * 1000 ms.             *)
(***************************************************************************)
C15_SMaxAgePrecedence ==
  timings.done =>
    /\ Carries(timings.header, {"s-maxage", "max-age"}) =>
         timings.result.ttl = ValueOf(timings.header, "s-maxage") * 1000
    /\ Carries(timings.header, {"max-age"}) =>
         timings.result.ttl = ValueOf(timings.header, "max-age") * 1000

(***************************************************************************)
(* The cache interceptor (src/src/app/util/retry-on-error.ts,              *)
(* createCacheInterceptor) over the Cache                                  *)
(*                                                                         *)
(* fetches are the transport calls next(req) the interceptor has under     *)
(* way, each with the key and the caller's staleTime and ttl of its        *)
(* request and whether the storing tap is attached.  The interceptor       *)
(* looks the entry up with cache.getUntracked and stores with the          *)
(* five-argument cache.store; both are read as the lookup and the store    *)
(* of cache.ts: getEntryAndStale without the use count, and                *)
(* storeWithInvalidation with its default parameters.                      *)
(***************************************************************************)
CACHE_METHODS == {"GET", "HEAD", "OPTIONS"}

\* a default parameter: the default replaces undefined
orDefault(x, d) == IF x = Undefined THEN d ELSE x

getUntracked(m, key, t) ==
  LET g == getEntry(m, key, t) IN
  IF ~g.found THEN [map |-> g.map, result |-> Absent]
  ELSE [map |-> g.map,
        result |-> [present |-> TRUE, value |-> g.entry.value,
                    isStale |-> isStale(g.entry, t)]]

\* the interceptor up to its return: the cached event, or next(req)
cacheInterceptor(m, method, useCache, key, t) ==
  IF method \notin CACHE_METHODS \/ ~useCache
  THEN [map |-> m, served |-> "transport", tap |-> FALSE, value |-> 0]
  ELSE LET e == getUntracked(m, key, t) IN
       IF e.result.present /\ ~e.result.isStale
       THEN [map |-> e.map, served |-> "cache", tap |-> FALSE,
             value |-> e.result.value]
       ELSE [map |-> e.map, served |-> "transport", tap |-> TRUE, value |-> 0]

\* the tap: what a response of the transport call f leaves in the cache
tapTimings(f, header, thisStale, thisTtl) ==
  LET r == resolveTimings(parseCacheControlHeader(header), f.staleTime, f.ttl)
  IN  [staleTime |-> orDefault(r.staleTime, thisStale),
       ttl |-> orDefault(r.ttl, thisTtl)]

Stores(f, ok, header) ==
  f.tap /\ ok /\ ~parseCacheControlHeader(header).noStore

tap(m, f, ok, header, value, t, thisStale, thisTtl, opt) ==
  IF ~Stores(f, ok, header) THEN m
  ELSE LET r == tapTimings(f, header, thisStale, thisTtl)
       IN  storeWithInvalidation(m, f.key, value, r.staleTime, r.ttl, t, thisTtl, opt)

InterceptHeaders ==
  { <<>>,
    <<Part("no-store", NoValue)>>,
    <<Part("immutable", NoValue)>>,
    <<Part("max-age", 1), Part("stale-while-revalidate", 1)>> }

FetchesIdle == fetches = <<>>

\* a caller subscribes to a request: the interceptor runs
Request(method, useCache, key, staleArg, ttlArg) ==
  /\ ~TimeoutDue
  /\ LET r == cacheInterceptor(internal, method, useCache, key, now) IN
       /\ r.served = "transport" => Len(fetches) < MaxFetches
       /\ internal' = r.map
       /\ fetches' = IF r.served = "cache" THEN fetches
                     ELSE Append(fetches, [key |-> key, staleTime |-> staleArg,
                                           ttl |-> ttlArg, tap |-> r.tap])
       /\ lastOp' = [op |-> "request", key |-> key, served |-> r.served,
                     value |-> r.value,
                     cacheable |-> (method \in CACHE_METHODS /\ useCache)]
  /\ UNCHANGED <<now, ttl, staleTime, cleanupOpt, stored>>
  /\ UNCHANGED notIntercept

\* the transport call answers: the tap stores a successful response
Respond(i, ok, header, value) ==
  /\ ~TimeoutDue
  /\ i \in 1..Len(fetches)
  /\ MapGet(internal, fetches[i].key).useCount < MaxUseCount
  /\ LET f == fetches[i]
         after == tap(internal, f, ok, header, value, now, staleTime, ttl, cleanupOpt)
         r == tapTimings(f, header, staleTime, ttl)
     IN  /\ internal' = after
         /\ lastOp' = [op |-> "response", key |-> f.key, value |-> value,
                       stores |-> Stores(f, ok, header),
                       immutable |-> parseCacheControlHeader(header).immutable]
         /\ stored' = IF Stores(f, ok, header)
                      THEN Surviving([stored EXCEPT ![f.key] =
                             [at |-> now, staleTime |-> r.staleTime, ttl |-> r.ttl,
                              value |-> value, set |-> TRUE]], after)
                      ELSE stored
  /\ fetches' = SubSeq(fetches, 1, i - 1) \o SubSeq(fetches, i + 1, Len(fetches))
  /\ UNCHANGED <<now, ttl, staleTime, cleanupOpt>>
  /\ UNCHANGED notIntercept

InterceptStep ==
  \/ \E method \in {"GET", "POST"}, useCache \in BOOLEAN, key \in FreshKeys,
        staleArg \in {Undefined, 0, 1}, ttlArg \in {Undefined, MaxTtl} :
       Request(method, useCache, key, staleArg, ttlArg)
  \/ \E i \in 1..MaxFetches, ok \in BOOLEAN, header \in InterceptHeaders,
        value \in Values : Respond(i, ok, header, value)
  \/ Tick
  \/ \E key \in FreshKeys : TimeoutFire(key)
  \/ \E key \in FreshKeys : Invalidate(key)

\* the last store of the key is still in force and, by its staleTime and
\* ttl, the entry is neither stale nor expired now
FreshInForce(key) ==
  /\ stored[key].set
  /\ now < plus(stored[key].at, stored[key].staleTime)
  /\ now < plus(stored[key].at, stored[key].ttl)

ImmutableInForce(key) ==
  /\ stored[key].set
  /\ stored[key].staleTime = Infinity
  /\ stored[key].ttl = Infinity

C16_ImmutableResponses ==
  \A key \in FreshKeys :
    ImmutableInForce(key) =>
      /\ getUntracked(internal, key, now).result.present
      /\ ~getUntracked(internal, key, now).result.isStale
      /\ (lastOp.op = "request" /\ lastOp.cacheable /\ lastOp.key = key) =>
           lastOp.served = "cache"

(***************************************************************************)
(* Responses that ask for revalidation: every response of the transport    *)
(* carries no-cache or must-revalidate, so every entry of the cache was     *)
(* stored from such a response.                                             *)
(***************************************************************************)
RevalidateHeaders ==
  { <<Part("no-cache", NoValue)>>,
    <<Part("must-revalidate", NoValue)>>,
    <<Part("no-cache", NoValue), Part("max-age", 1)>> }

RevalidateStep ==
  \/ \E method \in {"GET", "POST"}, useCache \in BOOLEAN, key \in FreshKeys,
        staleArg \in {Undefined, 0, 1}, ttlArg \in {Undefined, MaxTtl} :
       Request(method, useCache, key, staleArg, ttlArg)
  \/ \E i \in 1..MaxFetches, ok \in BOOLEAN, header \in RevalidateHeaders,
        value \in Values : Respond(i, ok, header, value)
  \/ Tick
  \/ \E key \in FreshKeys : TimeoutFire(key)

KeyedMethods == {"GET", "HEAD"}

\* req.urlWithParams: the URL and its parameters, without method or body
urlWithParams(r) == r.url

cacheKey(r) == IF r.key = Undefined THEN urlWithParams(r) ELSE r.key

\* the body the transport answers a descriptor with
BodyOf(method, url) == IF method = "GET" THEN 2 * url - 1 ELSE 2 * url

KeyedRequest(method, url) ==
  /\ ~TimeoutDue
  /\ LET q == [method |-> method, url |-> url, key |-> Undefined]
         r == cacheInterceptor(internal, method, TRUE, cacheKey(q), now)
     IN /\ r.served = "transport" => Len(fetches) < MaxFetches
        /\ internal' = r.map
        /\ fetches' = IF r.served = "cache" THEN fetches
                      ELSE Append(fetches, [key |-> cacheKey(q), staleTime |-> Undefined,
                                            ttl |-> Undefined, tap |-> r.tap,
                                            method |-> method, url |-> url])
        /\ lastOp' = [op |-> "request", key |-> cacheKey(q), served |-> r.served,
                      value |-> r.value, method |-> method, url |-> url]
  /\ UNCHANGED <<now, ttl, staleTime, cleanupOpt, stored>>
  /\ UNCHANGED notIntercept

KeyedRespond(i) ==
  /\ ~TimeoutDue
  /\ i \in 1..Len(fetches)
  /\ MapGet(internal, fetches[i].key).useCount < MaxUseCount
  /\ LET f == fetches[i]
         body == BodyOf(f.method, f.url)
         old == getEntry(internal, f.key, now)
     IN  /\ internal' = tap(internal, f, TRUE, <<>>, body, now, staleTime, ttl,
                            cleanupOpt)
         /\ lastOp' = [op |-> "response", key |-> f.key, value |-> body,
                       overwrote |-> IF old.found THEN old.entry.value ELSE 0]
  /\ fetches' = SubSeq(fetches, 1, i - 1) \o SubSeq(fetches, i + 1, Len(fetches))
  /\ UNCHANGED <<now, ttl, staleTime, cleanupOpt, stored>>
  /\ UNCHANGED notIntercept

KeysStep ==
  \/ \E method \in KeyedMethods, url \in Urls : KeyedRequest(method, url)
  \/ \E i \in 1..MaxFetches : KeyedRespond(i)
  \/ Tick
  \/ \E k \in Urls : TimeoutFire(k)

(***************************************************************************)
(* C22: a cache-enabled request served from the cache is handed the body   *)
(* of its own descriptor (method and URL), and a response stored over an   *)
(* unexpired entry replaces a body of the same descriptor.                 *)
(***************************************************************************)
C22_CacheKeyIsolation ==
  /\ (lastOp.op = "request" /\ lastOp.served = "cache") =>
       lastOp.value = BodyOf(lastOp.method, lastOp.url)
  /\ (lastOp.op = "response" /\ lastOp.overwrote # 0) =>
       lastOp.overwrote = lastOp.value

(***************************************************************************)
(* The published value of extendedHttpResource (src/unnamed/part_003,      *)
(* set, update, cachedEvent, cachedValue, value; keep-previous.ts) over    *)
(* the shared Cache.  A handler runs with the emissions of internal$ it    *)
(* causes and with the reads of the binding that follow it.                *)
(***************************************************************************)
ParseKinds == {"none", "shift"}

\* options.parse ?? ((val) => val): "shift" is a parse that maps a raw body
\* to another value
parse(kind, body) ==
  IF kind = "shift" /\ body # Undefined THEN body + NumValues ELSE body

\* the caller's updater of update(): the value after the current one
updater(value) == IF value = Undefined THEN 1 ELSE (value % NumValues) + 1

\* key: hashFn(req()), null without a request
key(v) == v.request

NoPending == [active |-> FALSE, served |-> "none", value |-> 0]

NewView == [cache |-> FALSE, keep |-> FALSE, parse |-> "none", request |-> 0,
            status |-> "Idle", resValue |-> Undefined, pending |-> NoPending,
            cachedEvent |-> NoValue, published |-> Undefined,
            before |-> Undefined, last |-> [op |-> "init"]]

\* cache.changes$(key$): one emission
changes(m, k, t) ==
  IF k = 0 THEN [map |-> m, event |-> NoValue]
  ELSE LET found == get(m, k, t) IN
       [map |-> found.map,
        event |-> IF found.result.present THEN found.result.value ELSE NoValue]

cachedValue(v) ==
  IF v.cachedEvent = NoValue THEN Undefined ELSE parse(v.parse, v.cachedEvent)

value(v) ==
  IF v.cache /\ cachedValue(v) # Undefined THEN cachedValue(v) ELSE v.resValue

isLoading(v) == v.status \in {"Loading", "Reloading"}

\* the loading signal handed to keepPrevious
loading(v) == isLoading(v) /\ cachedValue(v) = Undefined

\* keepPrevious(value, loading, options.keepPrevious): prev is the value of
\* the last computation
keepPrevious(v, prev) ==
  IF ~v.keep THEN value(v)
  ELSE IF loading(v) THEN prev ELSE value(v)

\* toSignal(cache.changes$(...)): an emission sets cachedEvent
emit(v, m, t) ==
  LET c == changes(m, key(v), t) IN
  [map |-> c.map, view |-> [v EXCEPT !.cachedEvent = c.event]]

\* storeWithInvalidation with its emissions: internal$.next after the set,
\* and again in cleanup() above maxSize
storeEmit(v, m, k, body, staleArg, ttlArg, t, thisTtl, opt) ==
  LET e == emit(v, storeSet(m, k, body, staleArg, ttlArg, t, thisTtl), t) IN
  IF Len(e.map) <= opt.maxSize THEN e
  ELSE emit(e.view, cleanup(e.map, opt), t)

\* the binding reads the published value after the handler
read(old, v, op) ==
  [v EXCEPT !.published = keepPrevious(v, old.published),
            !.before = IF isLoading(v) /\ ~isLoading(old)
                       THEN old.published ELSE old.before,
            !.last = op]

\* httpResource starts a load: the cache interceptor serves a fresh entry
fetch(v, m, t) ==
  LET r == cacheInterceptor(m, "GET", v.cache, key(v), t) IN
  [map |-> r.map,
   pending |-> [active |-> TRUE, served |-> r.served, value |-> r.value]]

\* set(value)
set(v, m, body, t, thisStale, thisTtl, opt) ==
  LET local == [v EXCEPT !.resValue = body, !.status = "Local",
                         !.pending = NoPending]
  IN  IF v.cache /\ key(v) # 0
      THEN storeEmit(local, m, key(v), body, thisStale, thisTtl, t, thisTtl, opt)
      ELSE [map |-> m, view |-> local]

ViewIdle == view = NewView

\* the key other clients of the cache store under: the last descriptor's
OtherKeys == {NumDescriptors}

UseBounded(m) == \A i \in 1..Len(m) : m[i].useCount <= MaxUseCount

InitView ==
  /\ now = 0
  /\ internal = <<>>
  /\ ttl = 1
  /\ staleTime = 1
  /\ cleanupOpt \in [type : {"lru"}, maxSize : 1..MaxMaxSize]
  /\ lastOp = [op |-> "init"]
  /\ stored = [k \in Keys |-> NoStore]
  /\ view \in {[NewView EXCEPT !.cache = c, !.keep = k, !.parse = p] :
              c \in BOOLEAN, k \in BOOLEAN, p \in ParseKinds}

\* the request signal changes
ViewSetRequest(d) ==
  /\ ~TimeoutDue
  /\ d # view.request
  /\ LET next == [view EXCEPT !.request = d, !.resValue = Undefined,
                              !.status = IF d = 0 THEN "Idle" ELSE "Loading",
                              !.pending = NoPending]
         f == IF d = 0 THEN [map |-> internal, pending |-> NoPending]
              ELSE fetch(next, internal, now)
         e == emit([next EXCEPT !.pending = f.pending], f.map, now)
     IN  /\ UseBounded(e.map)
         /\ internal' = e.map
         /\ view' = read(view, e.view, [op |-> "request"])
  /\ UNCHANGED <<now, ttl, staleTime, cleanupOpt, lastOp, stored>>
  /\ UNCHANGED notView

\* reload(): httpResource reloads unless idle or loading
ViewReload ==
  /\ ~TimeoutDue
  /\ view.status \in {"Resolved", "Error", "Local"}
  /\ view.request # 0
  /\ LET f == fetch(view, internal, now) IN
       /\ internal' = f.map
       /\ view' = read(view, [view EXCEPT !.status = "Reloading",
                                          !.pending = f.pending],
                       [op |-> "reload"])
  /\ UNCHANGED <<now, ttl, staleTime, cleanupOpt, lastOp, stored>>
  /\ UNCHANGED notView

\* the load ends: the tap of the cache interceptor stores a response of the
\* transport under the key, with the staleTime 0 and no ttl of cache: true
ViewSettle(ok, raw) ==
  /\ ~TimeoutDue
  /\ view.pending.active
  /\ view.pending.served = "cache" => (ok /\ raw = view.pending.value)
  /\ LET done == [view EXCEPT !.pending = NoPending,
                              !.status = IF ok THEN "Resolved" ELSE "Error",
                              !.resValue = IF ok THEN parse(view.parse, raw)
                                           ELSE Undefined]
         e == IF ok /\ view.cache /\ view.pending.served = "transport"
              THEN storeEmit(done, internal, key(view), raw, 0, ttl, now, ttl,
                             cleanupOpt)
              ELSE [map |-> internal, view |-> done]
     IN  /\ UseBounded(e.map)
         /\ internal' = e.map
         /\ view' = read(view, e.view, [op |-> "settle"])
  /\ UNCHANGED <<now, ttl, staleTime, cleanupOpt, lastOp, stored>>
  /\ UNCHANGED notView

ViewSet(body) ==
  /\ ~TimeoutDue
  /\ LET e == set(view, internal, body, now, staleTime, ttl, cleanupOpt) IN
       /\ UseBounded(e.map)
       /\ internal' = e.map
       /\ view' = read(view, e.view,
                       [op |-> "set", body |-> body,
                        cache |-> IF key(view) = 0 THEN internal ELSE <<>>])
  /\ UNCHANGED <<now, ttl, staleTime, cleanupOpt, lastOp, stored>>
  /\ UNCHANGED notView

\* update(updater): set(updater(untracked(resource.value)))
ViewUpdate ==
  /\ ~TimeoutDue
  /\ LET body == updater(view.resValue)
         e == set(view, internal, body, now, staleTime, ttl, cleanupOpt)
     IN /\ UseBounded(e.map)
        /\ internal' = e.map
        /\ view' = read(view, e.view,
                        [op |-> "update", body |-> body,
                        cache |-> IF key(view) = 0 THEN internal ELSE <<>>])
  /\ UNCHANGED <<now, ttl, staleTime, cleanupOpt, lastOp, stored>>
  /\ UNCHANGED notView

\* another client of the shared cache stores a response
ViewOtherStore(k, body) ==
  /\ ~TimeoutDue
  /\ LET e == storeEmit(view, internal, k, body, staleTime, ttl, now, ttl,
                        cleanupOpt)
     IN /\ UseBounded(e.map)
        /\ internal' = e.map
        /\ view' = read(view, e.view, [op |-> "store"])
  /\ UNCHANGED <<now, ttl, staleTime, cleanupOpt, lastOp, stored>>
  /\ UNCHANGED notView

\* an entry's removal timer fires: invalidate(key) emits
ViewTimeoutFire(k) ==
  /\ MapHas(internal, k)
  /\ MapGet(internal, k).timeout <= now
  /\ LET e == emit(view, invalidate(internal, k, now), now) IN
       /\ UseBounded(e.map)
       /\ internal' = e.map
       /\ view' = read(view, e.view, [op |-> "timeout"])
  /\ UNCHANGED <<now, ttl, staleTime, cleanupOpt, lastOp, stored>>
  /\ UNCHANGED notView

ViewTick ==
  /\ ~TimeoutDue
  /\ now < MaxViewTime
  /\ now' = now + 1
  /\ UNCHANGED <<internal, ttl, staleTime, cleanupOpt, lastOp, stored, view>>
  /\ UNCHANGED notView

ViewStep ==
  \/ \E d \in 0..NumDescriptors : ViewSetRequest(d)
  \/ ViewReload
  \/ \E ok \in BOOLEAN, raw \in Values : ViewSettle(ok, raw)
  \/ \E body \in Values : ViewSet(body)
  \/ ViewUpdate
  \/ \E k \in OtherKeys : ViewOtherStore(k, NumValues)
  \/ \E k \in Descriptors : ViewTimeoutFire(k)
  \/ ViewTick

(***************************************************************************)
(* C29: a store under one key changes no field (value, created, stale,     *)
(* expiresAt, useCount) of an entry under another key that is in the cache *)
(* before and after it, also while a resource observes that other key      *)
(* through changes$.                                                       *)
(***************************************************************************)
C29_PerKeyFrame ==
  [][view'.last.op = "store" =>
       \A k2 \in Descriptors \ OtherKeys :
         (MapHas(internal, k2) /\ MapHas(internal', k2)) =>
           MapGet(internal', k2) = MapGet(internal, k2)]_vars

(***************************************************************************)
(* C17: right after set(value) or update(fn) no load is under way; with    *)
(* caching enabled and a request, the published value and the cache entry  *)
(* under the current key hold the written value; without a request the     *)
(* cache is as it was before the call.                                     *)
(***************************************************************************)
C17_LocalWrite ==
  view.last.op \in {"set", "update"} =>
    /\ ~view.pending.active
    /\ (view.cache /\ key(view) # 0) =>
         /\ view.published = view.last.body
         /\ MapHas(internal, key(view))
         /\ MapGet(internal, key(view)).value = view.last.body
    /\ key(view) = 0 => internal = view.last.cache

(***************************************************************************)
(* C18: with keepPrevious, while a fetch is loading the published value is *)
(* the one published just before loading began, and once loading has ended *)
(* it is the underlying value; without keepPrevious it always is the       *)
(* underlying value.                                                       *)
(***************************************************************************)
C18_KeepPreviousDisplay ==
  /\ (view.keep /\ isLoading(view)) => view.published = view.before
  /\ (view.keep /\ ~isLoading(view)) => view.published = value(view)
  /\ ~view.keep => view.published = value(view)

(***************************************************************************)
(* C19: when destroy() returns, the controller has no refresh interval and *)
(* no retry timer pending, no load is under way or about to start, the     *)
(* resource is Idle, and another destroy() changes nothing.                *)
(***************************************************************************)
C19_Teardown ==
  (res.destroyed /\ res.hist.last = "destroy") =>
    /\ ~res.refreshSub
    /\ res.timers = <<>>
    /\ res.loading = 0
    /\ ~res.needsLoad
    /\ res.status = "Idle"
    /\ destroy(res) = res

(***************************************************************************)
(* The interceptor chain of the application (src/unnamed/part_000):        *)
(* withInterceptors([createDedupeRequestsInterceptor(),                    *)
(* createCacheInterceptor()]).  A request enters the dedupe interceptor,   *)
(* whose next is the cache interceptor, whose next is the transport.  A    *)
(* transport call carries the key, the options and the tap of the request  *)
(* that started it.                                                        *)
(***************************************************************************)
\* a key given in the cache context (opt.key), apart from every URL
CustomKey == NumKeys

ChainCall(q, tapped) ==
  [method |-> q.method, url |-> q.url, shared |-> TRUE, state |-> "pending",
   key |-> cacheKey(q), staleTime |-> q.staleTime, ttl |-> Undefined,
   tap |-> tapped]

\* the chain up to its return: the observable the caller is connected to
interceptors(inFl, cs, m, q, t) ==
  LET found == inFl[urlWithParams(q)] IN
  IF found # 0
  THEN [inFlight |-> inFl, calls |-> cs, map |-> m, call |-> found,
        served |-> "shared", value |-> 0]
  ELSE LET r == cacheInterceptor(m, q.method, q.useCache, cacheKey(q), t) IN
       IF r.served = "cache"
       \* of(entry.value) completes on subscription: finalize deletes the entry
       THEN [inFlight |-> inFl, calls |-> cs, map |-> r.map, call |-> 0,
             served |-> "cache", value |-> r.value]
       ELSE [inFlight |-> [inFl EXCEPT ![urlWithParams(q)] = Len(cs) + 1],
             calls |-> Append(cs, ChainCall(q, r.tap)), map |-> r.map,
             call |-> Len(cs) + 1, served |-> "transport", value |-> 0]

NoStoreHeader == <<Part("no-store", NoValue)>>

NoResponse == [op |-> "none", call |-> 0, value |-> 0, storable |-> FALSE]

InitChain ==
  /\ now = 0
  /\ internal = <<>>
  /\ ttl = MaxTtl
  /\ staleTime = 1
  /\ cleanupOpt \in [type : {"lru"}, maxSize : 1..MaxMaxSize]
  /\ lastOp = [op |-> "init"]
  /\ stored = [k \in Keys |-> NoStore]

ChainRequest(url, useCache, optKey) ==
  /\ ~TimeoutDue
  /\ Len(reqs) < MaxChainRequests
  /\ LET q == [method |-> "GET", url |-> url, useCache |-> useCache, key |-> optKey,
               staleTime |-> 1]
         r == interceptors(inFlight, calls, internal, q, now)
     IN /\ inFlight' = r.inFlight
        /\ calls' = r.calls
        /\ internal' = r.map
        /\ reqs' = Append(reqs, [url |-> url, useCache |-> useCache,
                                 key |-> cacheKey(q), call |-> r.call,
                                 served |-> r.served])
        /\ lastOp' = [op |-> "request", key |-> cacheKey(q), served |-> r.served,
                      value |-> r.value, cacheable |-> useCache,
                      \* history: the response this request follows at once
                      prev |-> IF lastOp.op = "response" THEN lastOp ELSE NoResponse]
  /\ UNCHANGED <<now, ttl, staleTime, cleanupOpt, stored>>
  /\ UNCHANGED notChain

\* the transport call answers: the tap of the request that started it
\* stores, finalize removes the in-flight entry
ChainRespond(c, ok, header, body) ==
  /\ ~TimeoutDue
  /\ c \in 1..Len(calls)
  /\ calls[c].state = "pending"
  /\ MapGet(internal, calls[c].key).useCount < MaxUseCount
  /\ internal' = tap(internal, calls[c], ok, header, body, now, staleTime, ttl,
                     cleanupOpt)
  /\ calls' = [calls EXCEPT ![c].state = IF ok THEN "ok" ELSE "error"]
  /\ inFlight' = finalize(inFlight, calls[c])
  /\ lastOp' = [op |-> "response", call |-> c, value |-> body,
                storable |-> ok /\ ~parseCacheControlHeader(header).noStore]
  /\ UNCHANGED <<now, ttl, staleTime, cleanupOpt, stored, reqs>>
  /\ UNCHANGED notChain

ChainStep ==
  \/ \E url \in Urls, useCache \in BOOLEAN, optKey \in {Undefined, CustomKey} :
       ChainRequest(url, useCache, optKey)
  \/ \E c \in 1..MaxChainRequests, ok \in BOOLEAN, header \in {<<>>, NoStoreHeader},
        body \in Values : ChainRespond(c, ok, header, body)

\* the cache-enabled requests that were coalesced onto call c
Coalesced(c) ==
  {i \in 1..Len(reqs) : reqs[i].call = c /\ reqs[i].served = "shared" /\ reqs[i].useCache}

(***************************************************************************)
(* C31: when the transport call a cache-enabled request was coalesced      *)
(* onto succeeds without no-store, the response is the cache entry under   *)
(* that request's own key, and a cache-enabled request for that key that   *)
(* follows at once is served from the cache.                               *)
(***************************************************************************)
C31_DedupCacheComposition ==
  /\ (lastOp.op = "response" /\ lastOp.storable) =>
       \A i \in Coalesced(lastOp.call) :
         /\ MapHas(internal, reqs[i].key)
         /\ MapGet(internal, reqs[i].key).value = lastOp.value
  /\ (/\ lastOp.op = "request"
      /\ lastOp.cacheable
      /\ lastOp.prev.op = "response"
      /\ lastOp.prev.storable
      /\ \E i \in Coalesced(lastOp.prev.call) : reqs[i].key = lastOp.key) =>
       lastOp.served = "cache" /\ lastOp.value = lastOp.prev.value

(***************************************************************************)
(* hash (src/src/app/util/hash.ts).  A value is an atom, an array or an    *)
(* object with its properties in insertion order; the result of            *)
(* JSON.stringify is the sequence of its tokens.                           *)
(***************************************************************************)
Atoms == {"null", "NaN", "1"}
PropKeys == {"a", "b", "constructor"}

Atom(x) == [t |-> "atom", a |-> x]
Arr(e) == [t |-> "arr", e |-> e]
Obj(p) == [t |-> "obj", p |-> p]
Prop(k, v) == [k |-> k, v |-> v]

\* the order of toSorted() on the keys: by code units
KeyRank(k) == IF k = "a" THEN 1 ELSE IF k = "b" THEN 2 ELSE 3

HasOwn(v, k) == \E i \in 1..Len(v.p) : v.p[i].k = k

\* isPlainObject(value): value.constructor === Object, which an own property
\* named constructor hides
isPlainObject(v) == v.t = "obj" /\ ~HasOwn(v, "constructor")

RECURSIVE InsertProp(_, _)
InsertProp(s, e) ==
  IF s = <<>> THEN <<e>>
  ELSE IF KeyRank(s[Len(s)].k) > KeyRank(e.k)
       THEN Append(InsertProp(SubSeq(s, 1, Len(s) - 1), e), s[Len(s)])
       ELSE Append(s, e)

RECURSIVE SortProps(_)
SortProps(p) ==
  IF p = <<>> THEN <<>>
  ELSE InsertProp(SortProps(SubSeq(p, 1, Len(p) - 1)), p[Len(p)])

\* the replacer: a plain object is rebuilt with its keys sorted
replacer(v) == IF isPlainObject(v) THEN Obj(SortProps(v.p)) ELSE v

\* JSON.stringify of a number: NaN is serialized as null
atomJson(x) == IF x = "NaN" THEN <<"null">> ELSE <<x>>

RECURSIVE stringify(_)
RECURSIVE Joined(_, _)
\* the members of an array or an object, separated by commas
Joined(items, isObject) ==
  IF items = <<>> THEN <<>>
  ELSE LET item == items[Len(items)]
           text == IF isObject THEN <<item.k, ":">> \o stringify(item.v)
                   ELSE stringify(item)
           rest == SubSeq(items, 1, Len(items) - 1)
       IN  IF rest = <<>> THEN text ELSE Joined(rest, isObject) \o <<",">> \o text

stringify(v) ==
  LET r == replacer(v) IN
  IF r.t = "atom" THEN atomJson(r.a)
  ELSE IF r.t = "arr" THEN <<"[">> \o Joined(r.e, FALSE) \o <<"]">>
  ELSE <<"{">> \o Joined(r.p, TRUE) \o <<"}">>

\* hashKey(queryKey), hash(...args)
hashKey(queryKey) == stringify(Arr(queryKey))
hash(arg) == hashKey(<<arg>>)

\* the value with the keys of every object in one order: two values with
\* the same normal form differ only in the order of object keys
RECURSIVE Normal(_)
Normal(v) ==
  IF v.t = "atom" THEN v
  ELSE IF v.t = "arr" THEN Arr([i \in 1..Len(v.e) |-> Normal(v.e[i])])
  ELSE LET p == SortProps(v.p) IN
       Obj([i \in 1..Len(p) |-> Prop(p[i].k, Normal(p[i].v))])

\* the values hashed: objects of up to MaxProps properties and arrays of up
\* to MaxProps elements over the atoms, and an object nested in an object
PropsOver(keys, vals) ==
  UNION {{[i \in 1..n |-> Prop(ks[i], vs[i])] :
            ks \in {q \in [1..n -> keys] : \A i, j \in 1..n : i # j => q[i] # q[j]},
            vs \in [1..n -> vals]} : n \in 0..MaxProps}

AtomValues == {Atom(x) : x \in Atoms}
FlatObjects == {Obj(p) : p \in PropsOver(PropKeys, AtomValues)}
FlatArrays == UNION {{Arr(e) : e \in [1..n -> AtomValues]} : n \in 0..MaxProps}
NestedObjects ==
  {Obj(<<Prop("a", Obj(p))>>) :
     p \in {q \in PropsOver({"a", "b"}, {Atom("1"), Atom("null")}) : Len(q) = MaxProps}}
HashValues == FlatObjects \cup FlatArrays \cup NestedObjects

NoHash == [a |-> Atom("null"), b |-> Atom("null"), ha |-> <<>>, hb |-> <<>>,
           done |-> FALSE]

HashIdle == hashed = NoHash

InitHash ==
  \E a \in HashValues, b \in HashValues : hashed = [NoHash EXCEPT !.a = a, !.b = b]

Hash ==
  /\ ~hashed.done
  /\ hashed' = [hashed EXCEPT !.ha = hash(hashed.a), !.hb = hash(hashed.b),
                              !.done = TRUE]
  /\ UNCHANGED notHash

HashStep ==
  \/ Hash

(***************************************************************************)
(* C23: two values that differ only in the order of object keys have the   *)
(* same hash, and two values that differ in anything else (the order of    *)
(* array elements, the value under a key) have different hashes.           *)
(***************************************************************************)
C23_CanonicalHash ==
  hashed.done =>
    /\ Normal(hashed.a) = Normal(hashed.b) => hashed.ha = hashed.hb
    /\ Normal(hashed.a) # Normal(hashed.b) => hashed.ha # hashed.hb

(***************************************************************************)
(* Specifications                                                          *)
(***************************************************************************)
InitSpecCache == InitCache /\ BreakerIdle /\ DedupeIdle /\ ResourceIdle /\ TimingsIdle /\ FetchesIdle /\ ViewIdle /\ HashIdle
SpecCache == InitSpecCache /\ [][CacheStep]_vars

SpecEvict == InitSpecCache /\ [][EvictStep]_vars

InitSpecBreaker == InitBreaker /\ CacheIdle /\ DedupeIdle /\ ResourceIdle /\ TimingsIdle /\ FetchesIdle /\ ViewIdle /\ HashIdle
SpecBreaker == InitSpecBreaker /\ [][BreakerStep]_vars

InitSpecDedupe == DedupeIdle /\ CacheIdle /\ BreakerIdle /\ ResourceIdle /\ TimingsIdle /\ FetchesIdle /\ ViewIdle /\ HashIdle
SpecDedupe == InitSpecDedupe /\ [][DedupeStep]_vars

InitSpecResource ==
  /\ cb = NewBreaker
  /\ treshold \in 1..MaxTreshold
  /\ cbHist = NoSignals
  /\ InitResource
  /\ CacheIdle
  /\ DedupeIdle
  /\ TimingsIdle
  /\ FetchesIdle
  /\ ViewIdle
  /\ HashIdle

SpecResource == InitSpecResource /\ [][ResourceStep]_vars

InitSpecMutation ==
  /\ cb = NewBreaker
  /\ treshold \in 1..MaxTreshold
  /\ cbHist = NoSignals
  /\ InitMutation
  /\ CacheIdle
  /\ DedupeIdle
  /\ TimingsIdle
  /\ FetchesIdle
  /\ ViewIdle
  /\ HashIdle

SpecMutation == InitSpecMutation /\ [][MutationStep]_vars

InitSpecTimings ==
  /\ InitTimings
  /\ CacheIdle
  /\ BreakerIdle
  /\ DedupeIdle
  /\ ResourceIdle
  /\ FetchesIdle
  /\ ViewIdle
  /\ HashIdle

TimingsStep ==
  \/ ResolveTimings

SpecTimings == InitSpecTimings /\ [][TimingsStep]_vars

InitSpecIntercept ==
  /\ InitCache
  /\ FetchesIdle
  /\ BreakerIdle
  /\ DedupeIdle
  /\ ResourceIdle
  /\ TimingsIdle
  /\ ViewIdle
  /\ HashIdle

SpecIntercept == InitSpecIntercept /\ [][InterceptStep]_vars

SpecRecovery ==
  /\ InitSpecBreaker
  /\ [][RecoveryStep]_vars
  /\ WF_vars(ResetTimerTask)

InitSpecView ==
  /\ InitView
  /\ BreakerIdle
  /\ DedupeIdle
  /\ ResourceIdle
  /\ TimingsIdle
  /\ FetchesIdle
  /\ HashIdle

SpecView == InitSpecView /\ [][ViewStep]_vars

SpecTeardown == InitSpecResource /\ [][TeardownStep]_vars

SpecKeys == InitSpecIntercept /\ [][KeysStep]_vars

InitSpecHash ==
  /\ InitHash
  /\ CacheIdle
  /\ BreakerIdle
  /\ DedupeIdle
  /\ ResourceIdle
  /\ TimingsIdle
  /\ FetchesIdle
  /\ ViewIdle

SpecHash == InitSpecHash /\ [][HashStep]_vars

SpecRevalidate == InitSpecIntercept /\ [][RevalidateStep]_vars

InitSpecChain ==
  /\ InitChain
  /\ FetchesIdle
  /\ BreakerIdle
  /\ DedupeIdle
  /\ ResourceIdle
  /\ TimingsIdle
  /\ ViewIdle
  /\ HashIdle

SpecChain == InitSpecChain /\ [][ChainStep]_vars

====
